---- MODULE Spec2Model ----
(***************************************************************************)
(* LyricFlow Studio: the editor state of App (lyrics, mode, tap-sync       *)
(* cursor, active line, suggestion flag), the handlers of LyricEditor and  *)
(* App that change it, and the playback port's timeupdate feed.            *)
(*                                                                         *)
(* Conventions.  Times are integers in milliseconds (0.2 s = 200); the     *)
(* doubles Infinity, -Infinity and NaN are three integers outside the     *)
(* range of times, and Plus, Scale and Leq compute with them as IEEE       *)
(* arithmetic does.  A text                                                *)
(* is a tuple of one-character strings, so that split, trim, parseFloat    *)
(* and the LRC pattern can be computed character by character.  An id is a *)
(* tuple holding the parts the code interpolates into its template string, *)
(* <<"line", now>> for `line-${Date.now()}` and so on; null is <<>>.       *)
(* Indices (syncIndex, the index of a row) are 0-based as in the code.     *)
(* Every state change of a React handler is taken as one step: handlers    *)
(* run to completion and the component re-renders before the next event.   *)
(***************************************************************************)
EXTENDS Integers, Sequences, FiniteSets, TLC

\* ------------------------------------------------------------------ bounds
\* Most lines the sequence may hold (guards of the inserting handlers).
MaxLines == 3
\* Largest timestamp (ms) an inserting handler may give a new line.
MaxTime == 3000
\* Most regions the regions plugin is given ids for.
MaxRegions == 2

\* ------------------------------------------------------- program constants
Tolerance == 200
EnterOffset == 2000
AiOffset == 3000

EDIT == "EDIT"
TAP_SYNC == "TAP_SYNC"
NoLine == <<>>
NoRegion == 0
NoNotice == "none"
EndOfLinesNotice == "End of lines reached"
EnterSyncNotice == "Entered Tap Sync Mode. Press SPACE to timestamp lines."
BackToEditNotice == "Back to Edit Mode."
ExportedNotice == "LRC exported successfully!"

\* ------------------------------------------------------------- input sets
\* Times the playback port can be at (0.8 + 0.2 reaches a line at 1.0).
PlayerTimes == {0, 800}
\* Readings of Date.now(); two events may read the same millisecond.
ClockReadings == {0, 1}
\* Values typed into a text field.
TextInputs == {<<"b">>}
\* Values typed or pasted into a timestamp field: "1:0", "0:-1", "x:1", "5"
\* and "Infinity:-Infinity".
TimeInputs ==
  { <<"1", ":", "0">>, <<"0", ":", "-", "1">>, <<"x", ":", "1">>, <<"5">>,
    <<"0", ":", "1", "x">>,
    <<"I", "n", "f", "i", "n", "i", "t", "y", ":",
      "-", "I", "n", "f", "i", "n", "i", "t", "y">> }
\* Results of the suggestion call: nothing, or a line of text.
Suggestions == { <<>>, <<"a">> }

\* ---------------------------------------------------------------- helpers
Digits == {"0", "1", "2", "3", "4", "5", "6", "7", "8", "9"}

DigitVal(c) ==
  CASE c = "0" -> 0 [] c = "1" -> 1 [] c = "2" -> 2 [] c = "3" -> 3
    [] c = "4" -> 4 [] c = "5" -> 5 [] c = "6" -> 6 [] c = "7" -> 7
    [] c = "8" -> 8 [] c = "9" -> 9

Min(a, b) == IF a <= b THEN a ELSE b

\* Length of the longest prefix of s whose characters are all in the set cs.
PrefixLen(s, cs) ==
  CHOOSE n \in 0..Len(s) :
    /\ \A i \in 1..n : s[i] \in cs
    /\ n = Len(s) \/ s[n + 1] \notin cs

Drop(s, n) == SubSeq(s, n + 1, Len(s))

RECURSIVE DigitsValue(_)
\* parseInt(ds, 10) of a run of decimal digits.
DigitsValue(ds) ==
  IF ds = <<>> THEN 0
  ELSE 10 * DigitsValue(SubSeq(ds, 1, Len(ds) - 1)) + DigitVal(ds[Len(ds)])

\* The decimal digit of d in 0..9.
DigitChar(d) ==
  CASE d = 0 -> "0" [] d = 1 -> "1" [] d = 2 -> "2" [] d = 3 -> "3"
    [] d = 4 -> "4" [] d = 5 -> "5" [] d = 6 -> "6" [] d = 7 -> "7"
    [] d = 8 -> "8" [] d = 9 -> "9"

RECURSIVE NatString(_)
\* `${n}` for an integer n >= 0.
NatString(n) ==
  IF n < 10 THEN <<DigitChar(n)>>
  ELSE NatString(n \div 10) \o <<DigitChar(n % 10)>>

\* `${n}` for an integer n.
IntString(n) == IF n < 0 THEN <<"-">> \o NatString(0 - n) ELSE NatString(n)

RECURSIVE Join(_, _)
\* Array.prototype.join(c) of an array of strings.
Join(ss, c) ==
  IF ss = <<>> THEN <<>>
  ELSE IF Len(ss) = 1 THEN ss[1]
  ELSE ss[1] \o <<c>> \o Join(Drop(ss, 1), c)

RECURSIVE Split(_, _)
\* String.prototype.split(c): the pieces between the occurrences of c.
Split(s, c) ==
  IF \A i \in 1..Len(s) : s[i] # c THEN <<s>>
  ELSE LET k == CHOOSE i \in 1..Len(s) :
                  s[i] = c /\ \A j \in 1..(i - 1) : s[j] # c
       IN <<SubSeq(s, 1, k - 1)>> \o Split(Drop(s, k), c)

WhiteSpace == {" ", "\r", "\t"}

\* String.prototype.trim().
Trim(s) ==
  LET a == PrefixLen(s, WhiteSpace)
      rest == Drop(s, a)
      b == CHOOSE n \in 0..Len(rest) :
             /\ \A i \in (n + 1)..Len(rest) : rest[i] \in WhiteSpace
             /\ n = 0 \/ rest[n] \notin WhiteSpace
  IN SubSeq(rest, 1, b)

\* The doubles that are not finite.
Infinity == 10^9

NegInfinity == 0 - Infinity

NaN == 2 * Infinity

\* a + b on doubles.
Plus(a, b) ==
  CASE a = NaN \/ b = NaN -> NaN
    [] a = Infinity -> IF b = NegInfinity THEN NaN ELSE Infinity
    [] a = NegInfinity -> IF b = Infinity THEN NaN ELSE NegInfinity
    [] b \in {Infinity, NegInfinity} -> b
    [] OTHER -> a + b

\* a - b on doubles.
Minus(a, b) ==
  Plus(a, CASE b = NaN -> NaN [] b = Infinity -> NegInfinity
            [] b = NegInfinity -> Infinity [] OTHER -> 0 - b)

\* a * k on doubles, for a finite k > 0.
Scale(a, k) == IF a \in {NaN, Infinity, NegInfinity} THEN a ELSE a * k

\* a <= b on doubles: false when either is NaN.
Leq(a, b) == a # NaN /\ b # NaN /\ a <= b

\* TRUE when s starts with the characters of t.
StartsWith(s, t) == Len(s) >= Len(t) /\ SubSeq(s, 1, Len(t)) = t

\* parseFloat(s): leading white space, an optional sign, then the literal
\* Infinity or decimal digits with an optional fraction.  NaN when no number
\* starts the string; otherwise the value in milliseconds (fractions past
\* the third digit are cut).  Exponents are not in the input alphabet.
ParseFloat(s) ==
  LET t == Drop(s, PrefixLen(s, WhiteSpace))
      signed == t # <<>> /\ t[1] \in {"-", "+"}
      negative == signed /\ t[1] = "-"
      u == IF signed THEN Drop(t, 1) ELSE t
      ni == PrefixLen(u, Digits)
      ip == SubSeq(u, 1, ni)
      v == Drop(u, ni)
      dotted == v # <<>> /\ v[1] = "."
      w == IF dotted THEN Drop(v, 1) ELSE <<>>
      nf == PrefixLen(w, Digits)
      fp == SubSeq(w, 1, Min(nf, 3))
      scale == CASE Len(fp) = 0 -> 0 [] Len(fp) = 1 -> 100
                 [] Len(fp) = 2 -> 10 [] Len(fp) = 3 -> 1
      mag == DigitsValue(ip) * 1000 + DigitsValue(fp) * scale
  IN CASE StartsWith(u, <<"I", "n", "f", "i", "n", "i", "t", "y">>) ->
            IF negative THEN NegInfinity ELSE Infinity
       [] ni = 0 /\ nf = 0 -> NaN
       [] OTHER -> IF negative THEN 0 - mag ELSE mag

\* isNaN(x)
isNaN(x) == x = NaN

Line(id, ts, text) == [id |-> id, timestamp |-> ts, text |-> text]

\* The comparator (a, b) => a.timestamp - b.timestamp as sort reads it: the
\* sign of the difference, a NaN difference counting as 0.
compare(a, b) ==
  LET d == Minus(a.timestamp, b.timestamp)
  IN CASE d = NaN -> 0 [] d < 0 -> -1 [] d > 0 -> 1 [] OTHER -> 0

\* Insert x after every element of the sorted s that does not compare
\* greater than x.
InsertByTimestamp(s, x) ==
  LET k == Cardinality({i \in 1..Len(s) : compare(s[i], x) <= 0})
  IN SubSeq(s, 1, k) \o <<x>> \o Drop(s, k)

RECURSIVE SortByTimestamp(_)
\* Array.prototype.sort with a consistent comparator: ascending and stable
\* (elements that compare equal keep their order).
SortByTimestamp(s) ==
  IF s = <<>> THEN <<>>
  ELSE InsertByTimestamp(SortByTimestamp(SubSeq(s, 1, Len(s) - 1)), s[Len(s)])

\* The comparator is consistent on s when comparing equal is transitive (a
\* NaN timestamp compares equal to every other, so it is consistent only
\* among timestamps that are all equal).
Consistent(s) ==
  \A i, j, k \in 1..Len(s) :
    (compare(s[i], s[j]) = 0 /\ compare(s[j], s[k]) = 0)
      => compare(s[i], s[k]) = 0

\* The rearrangements of s.
Rearrangements(s) ==
  { [i \in 1..Len(s) |-> s[p[i]]] :
      p \in {q \in [1..Len(s) -> 1..Len(s)] :
               \A a, b \in 1..Len(s) : q[a] = q[b] => a = b} }

\* The arrays s.sort((a, b) => a.timestamp - b.timestamp) can give: the
\* stable ascending order, or, when the comparator is not consistent, an
\* order the engine chooses.
Sort(s) == IF Consistent(s) THEN {SortByTimestamp(s)} ELSE Rearrangements(s)

\* newLyrics.splice(start, 0, x) on a copy of s (start is clamped to length).
Splice(s, start, x) ==
  LET k == Min(start, Len(s))
  IN SubSeq(s, 1, k) \o <<x>> \o Drop(s, k)

\* lyrics.map(f)
MapLines(s, f(_)) == [i \in 1..Len(s) |-> f(s[i])]

\* lyrics.filter(keep)
FilterLines(s, keep(_)) == SelectSeq(s, keep)

\* Non-decreasing by timestamp.
Sorted(s) ==
  \A i \in 1..(Len(s) - 1) : Leq(s[i].timestamp, s[i + 1].timestamp)


\* ------------------------------------------------- LyricEditor's handlers
\* Each takes the lyrics prop and gives the array handed to onUpdateLyrics.

handleTextChange(l, id, newText) ==
  MapLines(l, LAMBDA x : IF x.id = id THEN [x EXCEPT !.text = newText] ELSE x)

handleDelete(l, id) == FilterLines(l, LAMBDA x : x.id # id)

\* TRUE when the typed string passes both tests of handleTimeChange.
timeAccepted(newTimeStr) ==
  LET parts == Split(newTimeStr, ":")
  IN /\ Len(parts) = 2
     /\ ~isNaN(ParseFloat(parts[1]))
     /\ ~isNaN(ParseFloat(parts[2]))

\* min * 60 + sec of an accepted string.
timeTotal(newTimeStr) ==
  LET parts == Split(newTimeStr, ":")
  IN Plus(Scale(ParseFloat(parts[1]), 60), ParseFloat(parts[2]))

\* The arrays handleTimeChange can hand to onUpdateLyrics; a rejected string
\* makes no call and the lyrics stay as they are.
handleTimeChange(l, id, newTimeStr) ==
  IF timeAccepted(newTimeStr)
  THEN LET total == timeTotal(newTimeStr)
           updated == MapLines(l, LAMBDA x :
                        IF x.id = id THEN [x EXCEPT !.timestamp = total] ELSE x)
       IN Sort(updated)
  ELSE {l}

\* The Enter branch re-sorting after the insert: the variant the Enter
\* property must reject.
enterPressed_Resorts(l, index, clock) ==
  SortByTimestamp(
    Splice(l, index + 1,
           Line(<<"line", clock>>, Plus(l[index + 1].timestamp, EnterOffset),
                <<>>)))

\* The Enter branch of handleKeyDown.
enterPressed(l, index, clock) ==
  Splice(l, index + 1,
         Line(<<"line", clock>>, Plus(l[index + 1].timestamp, EnterOffset),
              <<>>))

\* The Backspace branch of handleKeyDown.
backspacePressed(l, index) ==
  IF l[index + 1].text = <<>> /\ Len(l) > 1
  THEN handleDelete(l, l[index + 1].id)
  ELSE l

handleKeyDown(l, index, key, clock) ==
  CASE key = "Enter" -> enterPressed(l, index, clock)
    [] key = "Backspace" -> backspacePressed(l, index)

\* ------------------------------------------------------- the LRC codec
LineTerminators == {"\n", "\r"}

\* TIME_REGEXP = /^\[(\d{2}):(\d{2})\.(\d{2,3})\](.*)/ against one line.
timeMatches(s) ==
  /\ Len(s) >= 10
  /\ s[1] = "[" /\ s[2] \in Digits /\ s[3] \in Digits
  /\ s[4] = ":" /\ s[5] \in Digits /\ s[6] \in Digits
  /\ s[7] = "." /\ s[8] \in Digits /\ s[9] \in Digits
  /\ \/ s[10] = "]"
     \/ Len(s) >= 11 /\ s[10] \in Digits /\ s[11] = "]"

\* The line parseLRC pushes for a matching line at position index.
parsedLine(s, index, clock) ==
  LET fracLen == IF s[10] = "]" THEN 2 ELSE 3
      minutes == DigitsValue(SubSeq(s, 2, 3))
      seconds == DigitsValue(SubSeq(s, 5, 6))
      milliseconds == DigitsValue(SubSeq(s, 8, 7 + fracLen))
      rest == Drop(s, 8 + fracLen)
      dotStar == SubSeq(rest, 1,
                   CHOOSE n \in 0..Len(rest) :
                     /\ \A i \in 1..n : rest[i] \notin LineTerminators
                     /\ n = Len(rest) \/ rest[n + 1] \in LineTerminators)
      totalSeconds == minutes * 60000 + seconds * 1000
                        + (IF fracLen = 3 THEN milliseconds ELSE milliseconds * 10)
  IN Line(<<"line", index, clock>>, totalSeconds, Trim(dotStar))

RECURSIVE pushMatching_StopsAtBad(_, _, _)
\* The loop of parseLRC giving up at the first line that does not match:
\* the variant the one-line-per-matching-line property must reject.
pushMatching_StopsAtBad(lines, n, clock) ==
  IF n = 0 THEN <<>>
  ELSE IF \E i \in 1..n : ~timeMatches(lines[i])
       THEN pushMatching_StopsAtBad(
              lines, (CHOOSE i \in 1..n : /\ ~timeMatches(lines[i])
                                          /\ \A j \in 1..(i - 1) : timeMatches(lines[j])) - 1,
              clock)
       ELSE pushMatching_StopsAtBad(lines, n - 1, clock)
              \o <<parsedLine(lines[n], n - 1, clock)>>

RECURSIVE pushMatching(_, _, _)
\* The forEach of parseLRC over lines[1..n] (index is 0-based in the ids).
pushMatching(lines, n, clock) ==
  IF n = 0 THEN <<>>
  ELSE pushMatching(lines, n - 1, clock)
         \o (IF timeMatches(lines[n])
             THEN <<parsedLine(lines[n], n - 1, clock)>> ELSE <<>>)

\* parseLRC without its trailing sort: the variant the ordering property of
\* import must reject.
parseLRC_Unsorted(lrcContent, clock) ==
  LET lines == Split(lrcContent, "\n")
  IN pushMatching(lines, Len(lines), clock)

parseLRC(lrcContent, clock) ==
  LET lines == Split(lrcContent, "\n")
  IN SortByTimestamp(pushMatching(lines, Len(lines), clock))

\* `${num}` for the results of Math.floor in formatTime.
NumString(x) ==
  CASE x = NaN -> <<"N", "a", "N">>
    [] x = Infinity -> <<"I", "n", "f", "i", "n", "i", "t", "y">>
    [] x = NegInfinity -> <<"-", "I", "n", "f", "i", "n", "i", "t", "y">>
    [] OTHER -> IntString(x)

\* format of formatTime: num < 10 ? `0${num}` : `${num}` (NaN < 10 is
\* false).
format(num) ==
  IF num # NaN /\ num < 10 THEN <<"0">> \o NumString(num) ELSE NumString(num)

\* a % b of JavaScript on integers, b > 0: the sign is the dividend's.
Rem(a, b) == IF a < 0 THEN 0 - ((0 - a) % b) ELSE a % b

\* formatTime(seconds) for a timestamp of t milliseconds; Math.floor and %
\* are taken in exact arithmetic.  Infinity % 60 and NaN % 60 are NaN.
formatTime(t) ==
  LET finite == t \notin {NaN, Infinity, NegInfinity}
      mins == IF finite THEN t \div 60000 ELSE t
      secs == IF finite THEN Rem(t, 60000) \div 1000 ELSE NaN
      ms == IF finite THEN Rem(t, 1000) \div 10 ELSE NaN
  IN <<"[">> \o format(mins) \o <<":">> \o format(secs) \o <<".">>
       \o format(ms) \o <<"]">>

\* exportLRC(lyrics)
exportLRC(l) ==
  Join([i \in 1..Len(l) |-> formatTime(l[i].timestamp) \o <<" ">> \o l[i].text],
       "\n")

\* ------------------------------------------------------- App's handlers
\* The array handlePasteLyrics builds from a non-empty prompt result.
pastedLyrics(text, clock) ==
  LET lines == SelectSeq(Split(text, "\n"), LAMBDA t : Trim(t) # <<>>)
  IN [i \in 1..Len(lines) |->
        Line(<<"imported", i - 1, clock>>, 0, Trim(lines[i]))]

\* The arrays handleAddLine can set.
handleAddLine(l, time, clock) ==
  Sort(Append(l, Line(<<"line", clock>>, time, <<>>)))

\* handleTapSync putting the lines back in timestamp order after the
\* stamp: the variant the tap-sync pass property must reject.
tappedLyrics_Resorts(l, index, time) ==
  SortByTimestamp([l EXCEPT ![index + 1] = [@ EXCEPT !.timestamp = time]])

\* handleTapSync stamping the line before the cursor (the first line at
\* cursor 0): the variant the tap property must reject.
tappedLyrics_OffByOne(l, index, time) ==
  [l EXCEPT ![IF index = 0 THEN 1 ELSE index] = [@ EXCEPT !.timestamp = time]]

\* newLyrics of handleTapSync: the line at syncIndex with its timestamp set.
tappedLyrics(l, index, time) ==
  [l EXCEPT ![index + 1] = [@ EXCEPT !.timestamp = time]]

\* [...lyrics].reverse().find(line => line.timestamp <= time + 0.2): the id
\* of the last such line of l, NoLine when find gives undefined.
findActive(l, time) ==
  LET q == {i \in 1..Len(l) : Leq(l[i].timestamp, Plus(time, Tolerance))}
  IN IF q = {} THEN NoLine
     ELSE l[CHOOSE i \in q : \A j \in q : j <= i].id

\* newLyrics of handleAiSuggestion for a non-empty suggestion; l and index
\* are the ones the call closed over.
suggestedLyrics(l, index, suggestion, clock) ==
  Splice(l, index + 1,
         Line(<<"ai", clock>>, Plus(l[index + 1].timestamp, AiOffset),
              suggestion))


\* ------------------------------------------------- the suggestion service
\* "Please configure API_KEY to use AI features."
KeyMissingText ==
  <<"P", "l", "e", "a", "s", "e", " ", "c", "o", "n", "f", "i", "g", "u",
    "r", "e", " ", "A", "P", "I", "_", "K", "E", "Y", " ", "t", "o", " ",
    "u", "s", "e", " ", "A", "I", " ", "f", "e", "a", "t", "u", "r", "e",
    "s", ".">>

\* "Error generating suggestion."
ServiceErrorText ==
  <<"E", "r", "r", "o", "r", " ", "g", "e", "n", "e", "r", "a", "t", "i",
    "n", "g", " ", "s", "u", "g", "g", "e", "s", "t", "i", "o", "n", ".">>

\* What model.generateContent can do: throw (network, quota, bad key), or
\* answer with a text (here " a " and the empty text) or with no text.
ServiceOutcomes ==
  { [kind |-> "throws", text |-> <<>>],
    [kind |-> "text", text |-> <<" ", "a", " ">>],
    [kind |-> "text", text |-> <<>>],
    [kind |-> "undefined", text |-> <<>>] }

\* generateLyricSuggestion without its try/catch: the variant the
\* never-raises property must reject.
generateLyricSuggestion_NoCatch(ai, outcome) ==
  CASE ~ai -> [raised |-> FALSE, value |-> KeyMissingText]
    [] outcome.kind = "throws" -> [raised |-> TRUE, value |-> <<>>]
    [] outcome.kind = "text" -> [raised |-> FALSE, value |-> Trim(outcome.text)]
    [] OTHER -> [raised |-> FALSE, value |-> <<>>]

\* generateLyricSuggestion: ai is whether the client was created (an API key
\* was configured), outcome what the service does.  The result tells whether
\* the promise rejects (raised) and the string it resolves to otherwise.
generateLyricSuggestion(ai, outcome) ==
  CASE ~ai -> [raised |-> FALSE, value |-> KeyMissingText]
    [] outcome.kind = "throws" -> [raised |-> FALSE, value |-> ServiceErrorText]
    [] outcome.kind = "text" -> [raised |-> FALSE, value |-> Trim(outcome.text)]
    [] OTHER -> [raised |-> FALSE, value |-> <<>>]

\* -------------------------------------------------------------- documents
\* ------------------------------------------- WaveformPlayer's region logic
\* The player's region state as one record; regions are records of the
\* plugin's list, told apart by id, with the loop option the handlers set.
RegionIds == 1..MaxRegions

Region(id, loop) == [id |-> id, loop |-> loop]

\* wsRegions.on('region-removed', ...): the reset when no region is left.
regionRemoved(pl) ==
  IF Len(pl.regions) = 0
  THEN [pl EXCEPT !.activeRegionRef = NoRegion, !.hasRegion = FALSE,
                  !.isLooping = FALSE]
  ELSE pl

\* region.remove() on the region with this id: the plugin drops it from its
\* list and emits region-removed; a region no longer in the list emits
\* nothing.
removeRegion(pl, id) ==
  IF \E i \in 1..Len(pl.regions) : pl.regions[i].id = id
  THEN regionRemoved([pl EXCEPT !.regions = SelectSeq(@, LAMBDA r : r.id # id)])
  ELSE pl

RECURSIVE removeAll(_, _)
\* r.remove() for each region of the list rs, in order.
removeAll(pl, rs) ==
  IF rs = <<>> THEN pl
  ELSE removeAll(removeRegion(pl, rs[1].id), Drop(rs, 1))

\* The region-created handler keeping the regions it finds: the variant
\* the single-region property must reject.
regionCreated_KeepsOthers(pl, id) ==
  [pl EXCEPT !.regions = [i \in 1..Len(@) |->
                            IF @[i].id = id THEN Region(id, FALSE) ELSE @[i]],
             !.activeRegionRef = id, !.hasRegion = TRUE, !.isLooping = FALSE]

\* wsRegions.on('region-created', region => ...), the new region already in
\* the plugin's list: the others are removed, the new one becomes the
\* active one with loop off.
regionCreated(pl, id) ==
  LET others == SelectSeq(pl.regions, LAMBDA r : r.id # id)
      alone == removeAll(pl, others)
  IN [alone EXCEPT !.regions = [i \in 1..Len(@) |->
                                  IF @[i].id = id THEN Region(id, FALSE) ELSE @[i]],
                   !.activeRegionRef = id, !.hasRegion = TRUE,
                   !.isLooping = FALSE]

\* The end of a drag selection: the plugin adds the region to its list and
\* emits region-created.
saveRegion(pl, id) ==
  regionCreated([pl EXCEPT !.regions = Append(@, Region(id, FALSE))], id)

\* clearRegion: activeRegionRef.current?.remove().
clearRegion(pl) ==
  IF pl.activeRegionRef # NoRegion THEN removeRegion(pl, pl.activeRegionRef)
  ELSE pl

\* The audioFile effect: clearRegions(), setHasRegion(false),
\* setIsLooping(false).
loadFile(pl) ==
  [removeAll(pl, pl.regions) EXCEPT !.hasRegion = FALSE, !.isLooping = FALSE]


\* Files given to "Import Text/LRC": a timed document with a malformed line
\* and lines out of order, "[00:01.00]a\n[bad\n[00:00.00] b", and the
\* empty file.
LrcDocs ==
  { <<"[", "0", "0", ":", "0", "1", ".", "0", "0", "]", "a", "\n",
      "[", "b", "a", "d", "\n",
      "[", "0", "0", ":", "0", "0", ".", "0", "0", "]", " ", "b">>,
    <<>> }
\* Lines of the files the codec is tried on: "[00:01.00]a",
\* "[00:00.50] b ", "[00:01.000]c\r", "[bad", the empty line and "a".
CodecLines ==
  { <<"[", "0", "0", ":", "0", "1", ".", "0", "0", "]", "a">>,
    <<"[", "0", "0", ":", "0", "0", ".", "5", "0", "]", " ", "b", " ">>,
    <<"[", "0", "0", ":", "0", "1", ".", "0", "0", "0", "]", "c", "\r">>,
    <<"[", "b", "a", "d">>,
    <<>>,
    <<"a">> }

\* The files of one to MaxLines such lines.
CodecDocs ==
  { Join(ls, "\n") : ls \in UNION { [1..n -> CodecLines] : n \in 1..MaxLines } }

\* Texts typed into a row before an export: "b" and " b".
CodecTexts == { <<"b">>, <<" ", "b">> }

\* Answers to the paste prompt: "a\n \nb " and the empty answer.
PasteTexts == { <<"a", "\n", " ", "\n", "b", " ">>, <<>> }

\* ------------------------------------------------------------------ state
VARIABLES
  lyrics,          \* App: useState<LyricLine[]>([])
  audioFile,       \* App: an audio file has been chosen (player mounted)
  currentTime,     \* App: useState(0), set by handleTimeUpdate
  activeLineId,    \* App: useState<string | null>(null)
  mode,            \* App: useState<AppMode>(AppMode.EDIT)
  syncIndex,       \* App: useState(0)
  isAiLoading,     \* App: useState(false)
  notification,    \* App: useState<string | null>(null)
  onTimeUpdate,    \* the handleTimeUpdate closure the mount effect registered
  aiCalls,         \* handleAiSuggestion calls awaiting the service
  lrcFile,         \* content of lyrics.lrc, the file handleExportLrc downloads
  regions,         \* WaveformPlayer: the regions wsRegions holds
  activeRegionRef, \* WaveformPlayer: useRef<any>(null), a region's id
  hasRegion,       \* WaveformPlayer: useState(false)
  isLooping        \* WaveformPlayer: useState(false)

\* The state of the WaveformPlayer's region feature.
playerVars == <<regions, activeRegionRef, hasRegion, isLooping>>

vars ==
  <<lyrics, audioFile, currentTime, activeLineId, mode, syncIndex,
    isAiLoading, notification, onTimeUpdate, aiCalls, lrcFile, playerVars>>

Rows == 0..(Len(lyrics) - 1)

\* The region state of the mounted player.
Player ==
  [regions |-> regions, activeRegionRef |-> activeRegionRef,
   hasRegion |-> hasRegion, isLooping |-> isLooping]

Init ==
  /\ lyrics = <<>>
  /\ audioFile = FALSE
  /\ currentTime = 0
  /\ activeLineId = NoLine
  /\ mode = EDIT
  /\ syncIndex = 0
  /\ isAiLoading = FALSE
  /\ notification = NoNotice
  /\ onTimeUpdate = [lyrics |-> <<>>, activeLineId |-> NoLine]
  /\ aiCalls = <<>>
  /\ lrcFile = <<>>
  /\ regions = <<>>
  /\ activeRegionRef = NoRegion
  /\ hasRegion = FALSE
  /\ isLooping = FALSE

\* handleFileUpload, then WaveformPlayer mounts and its effect registers
\* ws.on('timeupdate', t => onTimeUpdate(t)) with the onTimeUpdate prop of
\* that render: handleTimeUpdate closed over the lyrics and activeLineId of
\* that render.  The effect has no dependencies and never runs again.
FileUpload ==
  /\ ~audioFile
  /\ audioFile' = TRUE
  /\ onTimeUpdate' = [lyrics |-> lyrics, activeLineId |-> activeLineId]
  /\ LET pl == loadFile(Player)
     IN /\ regions' = pl.regions
        /\ activeRegionRef' = pl.activeRegionRef
        /\ hasRegion' = pl.hasRegion
        /\ isLooping' = pl.isLooping
  /\ UNCHANGED <<lyrics, currentTime, activeLineId, mode, syncIndex,
                 isAiLoading, notification, aiCalls, lrcFile>>

\* ws emits timeupdate(time): the registered closure runs.
TimeUpdate(time) ==
  /\ audioFile
  /\ currentTime' = time
  /\ LET active == findActive(onTimeUpdate.lyrics, time)
     IN activeLineId' =
          IF active # NoLine /\ active # onTimeUpdate.activeLineId
          THEN active ELSE activeLineId
  /\ UNCHANGED <<lyrics, audioFile, mode, syncIndex, isAiLoading,
                 notification, onTimeUpdate, aiCalls, lrcFile,
                 playerVars>>

\* reader.onload of handleLrcUpload with the file's content; an empty
\* result is falsy and nothing is set.
LrcUpload(doc, clock) ==
  /\ doc # <<>>
  /\ lyrics' = parseLRC(doc, clock)
  /\ UNCHANGED <<audioFile, currentTime, activeLineId, mode, syncIndex,
                 isAiLoading, notification, onTimeUpdate, aiCalls, lrcFile,
                 playerVars>>

\* handlePasteLyrics with the prompt's answer; an empty or cancelled answer
\* is falsy and nothing is set.
PasteLyrics(text, clock) ==
  /\ text # <<>>
  /\ lyrics' = pastedLyrics(text, clock)
  /\ UNCHANGED <<audioFile, currentTime, activeLineId, mode, syncIndex,
                 isAiLoading, notification, onTimeUpdate, aiCalls, lrcFile,
                 playerVars>>

\* The Add Line button, rendered in edit mode only.
AddLine(clock) ==
  /\ mode = EDIT
  /\ Len(lyrics) < MaxLines
  /\ lyrics' \in handleAddLine(lyrics, currentTime, clock)
  /\ UNCHANGED <<audioFile, currentTime, activeLineId, mode, syncIndex,
                 isAiLoading, notification, onTimeUpdate, aiCalls, lrcFile,
                 playerVars>>

\* onChange of the text input of row index (disabled in tap-sync mode).
TextChange(index, newText) ==
  /\ mode = EDIT
  /\ index \in Rows
  /\ lyrics' = handleTextChange(lyrics, lyrics[index + 1].id, newText)
  /\ UNCHANGED <<audioFile, currentTime, activeLineId, mode, syncIndex,
                 isAiLoading, notification, onTimeUpdate, aiCalls, lrcFile,
                 playerVars>>

\* onChange of the timestamp input of row index (readOnly in tap-sync mode).
TimeChange(index, newTimeStr) ==
  /\ mode = EDIT
  /\ index \in Rows
  /\ lyrics' \in handleTimeChange(lyrics, lyrics[index + 1].id, newTimeStr)
  /\ UNCHANGED <<audioFile, currentTime, activeLineId, mode, syncIndex,
                 isAiLoading, notification, onTimeUpdate, aiCalls, lrcFile,
                 playerVars>>

\* onKeyDown of the text input of row index (disabled in tap-sync mode).
KeyDown(index, key, clock) ==
  /\ mode = EDIT
  /\ index \in Rows
  /\ key = "Enter" =>
       /\ Len(lyrics) < MaxLines
       /\ Leq(Plus(lyrics[index + 1].timestamp, EnterOffset), MaxTime)
  /\ lyrics' = handleKeyDown(lyrics, index, key, clock)
  /\ UNCHANGED <<audioFile, currentTime, activeLineId, mode, syncIndex,
                 isAiLoading, notification, onTimeUpdate, aiCalls, lrcFile,
                 playerVars>>

\* The delete button of row index, enabled in both modes.
Delete(index) ==
  /\ index \in Rows
  /\ lyrics' = handleDelete(lyrics, lyrics[index + 1].id)
  /\ UNCHANGED <<audioFile, currentTime, activeLineId, mode, syncIndex,
                 isAiLoading, notification, onTimeUpdate, aiCalls, lrcFile,
                 playerVars>>

\* handleTapSync wrapping the cursor to the first line at the end of the
\* sequence: the variant the end-of-lines property must reject.
TapSync_Wraps(time) ==
  /\ mode = TAP_SYNC
  /\ IF syncIndex < Len(lyrics)
     THEN /\ lyrics' = tappedLyrics(lyrics, syncIndex, time)
          /\ activeLineId' = lyrics'[syncIndex + 1].id
          /\ syncIndex' = syncIndex + 1
          /\ UNCHANGED notification
     ELSE /\ notification' = EndOfLinesNotice
          /\ syncIndex' = 0
          /\ UNCHANGED <<lyrics, activeLineId>>
  /\ UNCHANGED <<audioFile, currentTime, mode, isAiLoading, onTimeUpdate,
                 aiCalls, lrcFile,
                 playerVars>>

\* handleTapSync, called by the Space shortcut while the mode is tap-sync;
\* time is what playerRef.current.getCurrentTime() returns.  The line at
\* syncIndex takes that time and is highlighted, and the cursor moves on;
\* past the last line only the notice is shown.
TapSync(time) ==
  /\ mode = TAP_SYNC
  /\ IF syncIndex < Len(lyrics)
     THEN /\ lyrics' = tappedLyrics(lyrics, syncIndex, time)
          /\ activeLineId' = lyrics'[syncIndex + 1].id
          /\ syncIndex' = syncIndex + 1
          /\ UNCHANGED notification
     ELSE /\ notification' = EndOfLinesNotice
          /\ UNCHANGED <<lyrics, activeLineId, syncIndex>>
  /\ UNCHANGED <<audioFile, currentTime, mode, isAiLoading, onTimeUpdate,
                 aiCalls, lrcFile,
                 playerVars>>

\* toggleMode without setSyncIndex(0): the variant the mode-switch property
\* must reject.
ToggleMode_KeepsCursor ==
  /\ audioFile
  /\ IF mode = EDIT
     THEN /\ mode' = TAP_SYNC
          /\ notification' = EnterSyncNotice
     ELSE /\ mode' = EDIT
          /\ notification' = BackToEditNotice
  /\ UNCHANGED <<lyrics, audioFile, currentTime, activeLineId, syncIndex,
                 isAiLoading, onTimeUpdate, aiCalls, lrcFile,
                 playerVars>>

\* toggleMode; its button is rendered once an audio file is loaded.
ToggleMode ==
  /\ audioFile
  /\ IF mode = EDIT
     THEN /\ mode' = TAP_SYNC
          /\ syncIndex' = 0
          /\ notification' = EnterSyncNotice
     ELSE /\ mode' = EDIT
          /\ notification' = BackToEditNotice
          /\ UNCHANGED syncIndex
  /\ UNCHANGED <<lyrics, audioFile, currentTime, activeLineId, isAiLoading,
                 onTimeUpdate, aiCalls, lrcFile,
                 playerVars>>

\* The setTimeout of showNotification fires: setNotification(null).  Every
\* notification shown has such a timer pending; once the notification is
\* null a further timer changes nothing.
NotificationTimeout ==
  /\ notification # NoNotice
  /\ notification' = NoNotice
  /\ UNCHANGED <<lyrics, audioFile, currentTime, activeLineId, mode,
                 syncIndex, isAiLoading, onTimeUpdate, aiCalls, lrcFile,
                 playerVars>>

\* handleAiSuggestion(index) behind a button that is never disabled: the
\* variant the one-request-in-flight property must reject.
RequestSuggestion_NeverDisabled(index) ==
  /\ index \in Rows
  /\ Len(lyrics) < MaxLines
  /\ Leq(Plus(lyrics[index + 1].timestamp, AiOffset), MaxTime)
  /\ isAiLoading' = TRUE
  /\ aiCalls' = Append(aiCalls, [lyrics |-> lyrics, index |-> index])
  /\ UNCHANGED <<lyrics, audioFile, currentTime, activeLineId, mode,
                 syncIndex, notification, onTimeUpdate, lrcFile,
                 playerVars>>

\* handleAiSuggestion(index) up to its await: the suggestion button of row
\* index is disabled while isAiLoading.  The call keeps the lyrics of the
\* render it was made in.
RequestSuggestion(index) ==
  /\ ~isAiLoading
  /\ index \in Rows
  /\ Len(lyrics) < MaxLines
  /\ Leq(Plus(lyrics[index + 1].timestamp, AiOffset), MaxTime)
  /\ isAiLoading' = TRUE
  /\ aiCalls' = Append(aiCalls, [lyrics |-> lyrics, index |-> index])
  /\ UNCHANGED <<lyrics, audioFile, currentTime, activeLineId, mode,
                 syncIndex, notification, onTimeUpdate, lrcFile,
                 playerVars>>

\* handleAiSuggestion after its await, for call number k: a non-empty
\* suggestion is spliced into the lyrics the call closed over, and that
\* array becomes the state.
SuggestionResponse(k, suggestion, clock) ==
  /\ k \in 1..Len(aiCalls)
  /\ lyrics' = IF suggestion # <<>>
               THEN suggestedLyrics(aiCalls[k].lyrics, aiCalls[k].index,
                                    suggestion, clock)
               ELSE lyrics
  /\ isAiLoading' = FALSE
  /\ aiCalls' = SubSeq(aiCalls, 1, k - 1) \o Drop(aiCalls, k)
  /\ UNCHANGED <<audioFile, currentTime, activeLineId, mode, syncIndex,
                 notification, onTimeUpdate, lrcFile,
                 playerVars>>

\* handleAiSuggestion after its await, with the service call spelled out:
\* the call resolves to a string, which is processed as above, or rejects,
\* and then the rest of the handler (setIsAiLoading(false) included) is
\* skipped.  Whether a key is configured is fixed for a run of the program;
\* it is drawn per call here, so that every call is checked under both (the
\* runs of the program are among the behaviours that result).
ServiceReply(k, ai, outcome, clock) ==
  LET r == generateLyricSuggestion(ai, outcome)
  IN IF r.raised
     THEN /\ k \in 1..Len(aiCalls)
          /\ aiCalls' = SubSeq(aiCalls, 1, k - 1) \o Drop(aiCalls, k)
          /\ UNCHANGED <<lyrics, audioFile, currentTime, activeLineId, mode,
                         syncIndex, isAiLoading, notification, onTimeUpdate, lrcFile,
                 playerVars>>
     ELSE SuggestionResponse(k, r.value, clock)

\* ---------------------------------------------------------- specifications
\* The events of the program, each with its inputs drawn from the input sets.
\* A drag over the waveform ends: the plugin saves the new region.  Its id
\* is one no region held has (the plugin draws ids at random); the least
\* such id stands for it.
DragRegion(id) ==
  /\ audioFile
  /\ id \in RegionIds
  /\ id # activeRegionRef
  /\ \A i \in 1..Len(regions) : regions[i].id # id
  /\ \A j \in 1..(id - 1) : \E i \in 1..Len(regions) : regions[i].id = j
  /\ LET pl == saveRegion(Player, id)
     IN /\ regions' = pl.regions
        /\ activeRegionRef' = pl.activeRegionRef
        /\ hasRegion' = pl.hasRegion
        /\ isLooping' = pl.isLooping
  /\ UNCHANGED <<lyrics, audioFile, currentTime, activeLineId, mode,
                 syncIndex, isAiLoading, notification, onTimeUpdate, aiCalls,
                 lrcFile>>

\* The Clear Selection button, rendered while hasRegion.
ClearSelection ==
  /\ audioFile
  /\ hasRegion
  /\ LET pl == clearRegion(Player)
     IN /\ regions' = pl.regions
        /\ activeRegionRef' = pl.activeRegionRef
        /\ hasRegion' = pl.hasRegion
        /\ isLooping' = pl.isLooping
  /\ UNCHANGED <<lyrics, audioFile, currentTime, activeLineId, mode,
                 syncIndex, isAiLoading, notification, onTimeUpdate, aiCalls,
                 lrcFile>>

Import ==
  \/ \E doc \in LrcDocs, clock \in ClockReadings : LrcUpload(doc, clock)
  \/ \E text \in PasteTexts, clock \in ClockReadings : PasteLyrics(text, clock)

Adding == \E clock \in ClockReadings : AddLine(clock)

Typing == \E index \in Rows, newText \in TextInputs : TextChange(index, newText)

Timing == \E index \in Rows, newTimeStr \in TimeInputs : TimeChange(index, newTimeStr)

Keying ==
  \E index \in Rows, key \in {"Enter", "Backspace"}, clock \in ClockReadings :
    KeyDown(index, key, clock)

Deleting == \E index \in Rows : Delete(index)

Edit == Adding \/ Typing \/ Timing \/ Keying \/ Deleting

Tapping == \E time \in PlayerTimes : TapSync(time)

Playback ==
  \/ FileUpload
  \/ \E time \in PlayerTimes : TimeUpdate(time)

Sync == ToggleMode \/ Tapping \/ NotificationTimeout

Suggest ==
  \/ \E index \in Rows : RequestSuggestion(index)
  \/ \E k \in 1..Len(aiCalls), suggestion \in Suggestions,
        clock \in ClockReadings : SuggestionResponse(k, suggestion, clock)

\* handleExportLrc: the browser saves exportLRC(lyrics) as lyrics.lrc.
ExportLrc ==
  /\ lrcFile' = exportLRC(lyrics)
  /\ notification' = ExportedNotice
  /\ UNCHANGED <<lyrics, audioFile, currentTime, activeLineId, mode,
                 syncIndex, isAiLoading, onTimeUpdate, aiCalls, playerVars>>

\* "Import Text/LRC" given the saved lyrics.lrc.
ImportSaved == \E clock \in ClockReadings : LrcUpload(lrcFile, clock)

\* The Paste Text button with one of the answers.
Pasting ==
  \E text \in PasteTexts, clock \in ClockReadings : PasteLyrics(text, clock)

\* Typing before an export, with leading white space or without.
Retyping ==
  \E index \in Rows, newText \in CodecTexts : TextChange(index, newText)

Regioning ==
  \/ \E id \in RegionIds : DragRegion(id)
  \/ ClearSelection

\* The whole program: every event, in any order.
Next ==
  \/ Import \/ Edit \/ Playback \/ Sync \/ Suggest \/ Regioning
  \/ ExportLrc \/ ImportSaved

Spec == Init /\ [][Next]_vars

\* The behaviours of Spec are checked in parts, each a restriction of
\* Next to the events that bear on one group of properties.

\* Writing the lyrics without audio: import, paste, typing, Enter and
\* Backspace, delete.
NextCompose == Import \/ Typing \/ Keying \/ Deleting

SpecCompose == Init /\ [][NextCompose]_vars

\* A playback and tap-sync session: import, delete (enabled in both modes),
\* loading the audio, the timeupdate feed, the mode toggle and the tap.
NextSession == Import \/ Deleting \/ Playback \/ Sync

SpecSession == Init /\ [][NextSession]_vars

\* Timestamps lines carry after a tap-sync pass, in any order.
StoreTimes == {0, 800, 2000}

\* The sequences of n lines with timestamps drawn from StoreTimes.
StoreLines(n) ==
  { [i \in 1..n |-> Line(<<"imported", i - 1, 0>>, ts[i], <<"a">>)] :
      ts \in [1..n -> StoreTimes] }

\* The store on any sequence, sorted or not: pasted lines that were
\* tap-synced, back in edit mode with the player at any position.
InitStore ==
  /\ lyrics \in UNION { StoreLines(n) : n \in 0..MaxLines }
  /\ audioFile = TRUE
  /\ currentTime \in PlayerTimes
  /\ activeLineId = NoLine
  /\ mode = EDIT
  /\ syncIndex = 0
  /\ isAiLoading = FALSE
  /\ notification = NoNotice
  /\ onTimeUpdate = [lyrics |-> <<>>, activeLineId |-> NoLine]
  /\ aiCalls = <<>>
  /\ lrcFile = <<>>
  /\ regions = <<>>
  /\ activeRegionRef = NoRegion
  /\ hasRegion = FALSE
  /\ isLooping = FALSE

NextStore == Adding \/ Timing

SpecStore == InitStore /\ [][NextStore]_vars

\* Suggestions in flight while the user goes on editing, without audio.
NextAssist == Import \/ Typing \/ Deleting \/ Suggest

SpecAssist == Init /\ [][NextAssist]_vars

\* Suggestions in flight during a tap-sync session.
NextTapAssist == Import \/ FileUpload \/ Sync \/ Suggest

SpecTapAssist == Init /\ [][NextTapAssist]_vars

\* The suggestion service behind the requests: import, delete, request, and
\* every way the service call can end.
Requesting == \E index \in Rows : RequestSuggestion(index)

Replying ==
  \E k \in 1..Len(aiCalls), ai \in BOOLEAN, outcome \in ServiceOutcomes,
     clock \in ClockReadings : ServiceReply(k, ai, outcome, clock)

NextService == Import \/ Deleting \/ Requesting \/ Replying

SpecService == Init /\ [][NextService]_vars

\* The codec on files: lyrics.lrc holds any of the documents, is imported,
\* edited, exported and imported again; lyrics are pasted as well.
InitCodec ==
  /\ lrcFile \in CodecDocs
  /\ lyrics = <<>>
  /\ audioFile = FALSE
  /\ currentTime = 0
  /\ activeLineId = NoLine
  /\ mode = EDIT
  /\ syncIndex = 0
  /\ isAiLoading = FALSE
  /\ notification = NoNotice
  /\ onTimeUpdate = [lyrics |-> <<>>, activeLineId |-> NoLine]
  /\ aiCalls = <<>>
  /\ regions = <<>>
  /\ activeRegionRef = NoRegion
  /\ hasRegion = FALSE
  /\ isLooping = FALSE

NextCodec ==
  ImportSaved \/ Pasting \/ Retyping \/ ExportLrc \/ NotificationTimeout

SpecCodec == InitCodec /\ [][NextCodec]_vars

\* Import and paste while in edit mode.
ImportInEdit == mode = EDIT /\ Import

\* A tap of a pass: the player's time is not less than at the tap before.
PassTap(time) ==
  /\ syncIndex > 0 => Leq(lyrics[Min(syncIndex, Len(lyrics))].timestamp, time)
  /\ TapSync(time)

\* Tap-sync passes: the lyrics are imported in edit mode, the audio is
\* loaded and plays, tap-sync is entered and left, and between the two
\* there are only taps, at times that do not decrease.
NextTapPass ==
  \/ ImportInEdit
  \/ Playback
  \/ ToggleMode
  \/ \E time \in PlayerTimes : PassTap(time)

SpecTapPass == Init /\ [][NextTapPass]_vars

\* The player during a session: import, loading the audio, the timeupdate
\* feed, drags over the waveform and the Clear Selection button.
NextPlayer == Import \/ Playback \/ Regioning

SpecPlayer == Init /\ [][NextPlayer]_vars

\* ------------------------------------------------------------- properties

\* C1, as stated: in every reachable state the lyric sequence is sorted by
\* timestamp in non-decreasing order.
C1_AlwaysSorted == Sorted(lyrics)

\* C1, amended: the sequence is in non-decreasing timestamp order after
\* every import and paste, and a text edit or a delete leaves a sequence
\* that is in order in order.  (Enter-insert, suggestion-insert and tap do
\* not re-establish the order.)  Stated by contraposition: a step that ends
\* out of order is no import or paste, and no text edit or delete if it
\* began in order.
C1_ImportSortsEditsPreserve ==
  [][ ~Sorted(lyrics') =>
        /\ ~Import
        /\ Sorted(lyrics) => ~(Typing \/ Deleting) ]_vars

\* C1's case: an import put the document's lines, which were out of order,
\* in order, and the text of its later line was then edited.
C1_Witness ==
  /\ Len(lyrics) = 2
  /\ lyrics[1] = Line(<<"line", 2, 0>>, 0, <<"b">>)
  /\ lyrics[2] = Line(<<"line", 0, 0>>, 1000, <<"b">>)

\* C2, as stated: after an accepted timestamp edit and after Add Line the
\* stored sequence is in non-decreasing timestamp order, whatever sequence
\* (sorted or not) the handler was given: no step that ends out of order is
\* one of the two.
C2_StoreSortsOnTimeEditAndAddLine ==
  [][ ~Sorted(lyrics') =>
        /\ \A index \in Rows, newTimeStr \in TimeInputs :
             ~(timeAccepted(newTimeStr) /\ TimeChange(index, newTimeStr))
        /\ \A clock \in ClockReadings : ~AddLine(clock) ]_vars

\* C3, as stated: whenever the mode is tap-sync the cursor satisfies
\* 0 <= cursor <= length of the lyric sequence.
C3_CursorWithinLength ==
  mode = TAP_SYNC => 0 <= syncIndex /\ syncIndex <= Len(lyrics)

\* C4: a tap in tap-sync mode with the cursor before the end overwrites the
\* timestamp of the line at the cursor with the time read from the playback
\* port, makes that line the active line, and advances the cursor by 1.
C4_TapStampsTheLineAtTheCursor ==
  [][ \A time \in PlayerTimes :
        (TapSync(time) /\ syncIndex < Len(lyrics)) =>
          /\ lyrics'[syncIndex + 1].timestamp = time
          /\ activeLineId' = lyrics[syncIndex + 1].id
          /\ syncIndex' = syncIndex + 1 ]_vars

\* C4's case: the first of several lines was tapped at 0.8 s.
C4_Witness ==
  /\ mode = TAP_SYNC
  /\ syncIndex = 1
  /\ Len(lyrics) >= 2
  /\ lyrics[1].timestamp = 800
  /\ activeLineId = lyrics[1].id

\* C5: a tap in tap-sync mode with the cursor equal to the sequence length
\* leaves the lyrics, the cursor, the mode and the active line unchanged and
\* raises the end-of-lines notification.
C5_TapAtTheEndOnlyNotifies ==
  [][ \A time \in PlayerTimes :
        (TapSync(time) /\ syncIndex = Len(lyrics)) =>
          /\ lyrics' = lyrics
          /\ syncIndex' = syncIndex
          /\ mode' = mode
          /\ activeLineId' = activeLineId
          /\ notification' = EndOfLinesNotice ]_vars

\* C5's case: every line was tapped and one more tap raised the notice.
C5_Witness ==
  /\ mode = TAP_SYNC
  /\ Len(lyrics) = 2
  /\ syncIndex = Len(lyrics)
  /\ activeLineId = lyrics[2].id
  /\ notification = EndOfLinesNotice

\* C6: every transition from edit mode into tap-sync mode sets the cursor to
\* 0, and every transition from tap-sync back to edit mode leaves the lyric
\* sequence unchanged.
C6_EnterResetsCursorLeaveKeepsLyrics ==
  [][ /\ (mode = EDIT /\ mode' = TAP_SYNC) => syncIndex' = 0
      /\ (mode = TAP_SYNC /\ mode' = EDIT) => lyrics' = lyrics ]_vars

\* C6's case: a line carries a tapped time, so an earlier session moved the
\* cursor past 0 and was left; tap-sync was entered again and the cursor is 0.
C6_Witness ==
  /\ mode = TAP_SYNC
  /\ syncIndex = 0
  /\ notification = EnterSyncNotice
  /\ \E i \in 1..Len(lyrics) : lyrics[i].timestamp = 800

\* C7, as stated: after timeupdate(t), if some line of the current sequence
\* has timestamp <= t + 0.2 the active line is the one with the latest such
\* timestamp.
C7_ActiveIsLatestQualifyingLine ==
  [][ \A time \in PlayerTimes :
        LET q == {i \in 1..Len(lyrics) :
                    Leq(lyrics[i].timestamp, Plus(time, Tolerance))}
        IN (TimeUpdate(time) /\ q # {}) =>
             \E i \in q :
               /\ activeLineId' = lyrics[i].id
               /\ \A j \in q : Leq(lyrics[j].timestamp, lyrics[i].timestamp)
    ]_vars

\* C8, as stated: after timeupdate(t), if no line of the sequence has
\* timestamp <= t + 0.2 the active line is none.
C8_NoQualifyingLineNoActiveLine ==
  [][ \A time \in PlayerTimes :
        (/\ TimeUpdate(time)
         /\ \A i \in 1..Len(lyrics) :
              ~Leq(lyrics[i].timestamp, Plus(time, Tolerance)))
          => activeLineId' = NoLine ]_vars

\* C9, as stated: while the mode is tap-sync, the text of every line present
\* does not change, and its timestamp changes only by a tap on the line at
\* the cursor.  (A line is followed from one state to the next by its id,
\* where that id names one line in both; an import or paste replaces the
\* lines by new ones and changes none.)
C9_TapSyncFreezesLines ==
  [][ (mode = TAP_SYNC /\ mode' = TAP_SYNC /\ ~Import) =>
        \A i \in 1..Len(lyrics), j \in 1..Len(lyrics') :
          (/\ lyrics[i].id = lyrics'[j].id
           /\ \A m \in 1..Len(lyrics) : lyrics[m].id = lyrics[i].id => m = i
           /\ \A m \in 1..Len(lyrics') : lyrics'[m].id = lyrics'[j].id => m = j)
            => /\ lyrics'[j].text = lyrics[i].text
               /\ \/ lyrics'[j].timestamp = lyrics[i].timestamp
                  \/ i = syncIndex + 1 /\ Tapping ]_vars

\* C10, as stated: when a suggestion's response is processed, the effect of
\* every edit applied since its request is still present, and the response
\* adds at most the one suggested line: the new sequence is the current one,
\* or the current one with one line inserted.
C10_ResponseKeepsInterleavedEdits ==
  [][ (\E k \in 1..Len(aiCalls), suggestion \in Suggestions,
          clock \in ClockReadings : SuggestionResponse(k, suggestion, clock))
        => \/ lyrics' = lyrics
           \/ \E pos \in 0..Len(lyrics) :
                /\ Len(lyrics') = Len(lyrics) + 1
                /\ lyrics' = Splice(lyrics, pos, lyrics'[pos + 1]) ]_vars

\* C11: through the UI at most one suggestion request is outstanding: the
\* in-flight flag is true exactly while a request awaits its response, no
\* request can be issued while it is true, and it is false again once the
\* response has been processed.
C11_OneSuggestionInFlight ==
  /\ Len(aiCalls) <= 1
  /\ isAiLoading <=> Len(aiCalls) = 1
  /\ isAiLoading => ~ENABLED (\E index \in Rows : RequestSuggestion(index))

\* C11's case: a response has been processed (its line is in the sequence),
\* the flag went back to false and a second request is now in flight.
C11_Witness ==
  /\ isAiLoading
  /\ Len(aiCalls) = 1
  /\ \E i \in 1..Len(lyrics) : lyrics[i].id[1] = "ai"

\* C12, as stated: when the response for requested index i is processed, an
\* empty string leaves the sequence unchanged, and a non-empty string
\* inserts exactly one new line carrying that text immediately after
\* position i, with the timestamp of the line at index i plus 3 seconds,
\* and no re-sort.  (The line at index i is taken as the call saw it or as
\* it is now: either timestamp satisfies the statement.)
C12_ResponseInsertsOneLineAfterIndex ==
  [][ \A k \in 1..Len(aiCalls), suggestion \in Suggestions,
         clock \in ClockReadings :
        SuggestionResponse(k, suggestion, clock) =>
          LET i == aiCalls[k].index
              bases == {aiCalls[k].lyrics[i + 1].timestamp}
                         \cup (IF i < Len(lyrics)
                               THEN {lyrics[i + 1].timestamp} ELSE {})
          IN IF suggestion = <<>>
             THEN lyrics' = lyrics
             ELSE \E base \in bases :
                    lyrics' = Splice(lyrics, i + 1,
                                Line(<<"ai", clock>>, Plus(base, AiOffset),
                                     suggestion)) ]_vars

\* C13: the suggestion call never raises to its caller: with the API key
\* missing or the service failing it returns a fixed non-empty placeholder
\* string, and the in-flight flag is cleared when the call has returned.
C13_ServiceNeverRaises ==
  [][ \A k \in 1..Len(aiCalls), ai \in BOOLEAN, outcome \in ServiceOutcomes,
         clock \in ClockReadings :
        ServiceReply(k, ai, outcome, clock) =>
          LET r == generateLyricSuggestion(ai, outcome)
          IN /\ ~r.raised
             /\ ~ai => r.value = KeyMissingText
             /\ (ai /\ outcome.kind = "throws") => r.value = ServiceErrorText
             /\ KeyMissingText # <<>> /\ ServiceErrorText # <<>>
             /\ isAiLoading' = FALSE ]_vars

\* C13's case: the service failed, the call returned the error placeholder,
\* which was inserted as a line, and the flag is clear.
C13_Witness ==
  /\ ~isAiLoading
  /\ aiCalls = <<>>
  /\ \E i \in 1..Len(lyrics) : lyrics[i].text = ServiceErrorText
  /\ \A i \in 1..Len(lyrics) : lyrics[i].text # KeyMissingText

\* C14: in every reachable state no two lines of the sequence carry the same
\* id, whichever of import, paste, Enter or the other creating operations
\* made them, and also when several are made at one clock reading.
C14_IdsUnique ==
  \A i, j \in 1..Len(lyrics) : i # j => lyrics[i].id # lyrics[j].id

\* C15: in every reachable state every line's timestamp is a number that is
\* zero or more; a manual edit to a negative time is turned down.
C15_TimestampsNonNegative ==
  \A i \in 1..Len(lyrics) : Leq(0, lyrics[i].timestamp)

\* A string that is a number from end to end: an optional sign, then the
\* literal Infinity or digits with an optional fraction, white space around
\* it allowed.
WholeNumber(s) ==
  LET t == Trim(s)
      u == IF t # <<>> /\ t[1] \in {"-", "+"} THEN Drop(t, 1) ELSE t
      ni == PrefixLen(u, Digits)
      v == Drop(u, ni)
      w == IF v # <<>> /\ v[1] = "." THEN Drop(v, 1) ELSE v
      nf == PrefixLen(w, Digits)
  IN \/ u = <<"I", "n", "f", "i", "n", "i", "t", "y">>
     \/ ni + nf > 0 /\ Drop(w, nf) = <<>>

\* A time as the timestamp field takes it: two parts around one colon, each
\* of them a number.
ValidTimeInput(s) ==
  LET parts == Split(s, ":")
  IN Len(parts) = 2 /\ WholeNumber(parts[1]) /\ WholeNumber(parts[2])

\* C16: a timestamp edit whose string is not two colon-separated numbers
\* leaves the sequence as it was: same lines, same order, same timestamps.
C16_InvalidTimeInputIgnored ==
  [][ \A index \in Rows, newTimeStr \in TimeInputs :
        (TimeChange(index, newTimeStr) /\ ~ValidTimeInput(newTimeStr))
          => lyrics' = lyrics ]_vars

\* C17: an accepted timestamp edit of row index rearranges the same lines:
\* each keeps its id and text, only the edited one has a new timestamp (the
\* typed one), the result is in timestamp order, and lines with equal
\* timestamps stay in the order they had.
C17_AcceptedTimeEditRearranges ==
  [][ \A index \in Rows, newTimeStr \in TimeInputs :
        (TimeChange(index, newTimeStr) /\ timeAccepted(newTimeStr)) =>
          /\ Len(lyrics') = Len(lyrics)
          /\ \E p \in [1..Len(lyrics) -> 1..Len(lyrics)] :
               /\ \A j, k \in 1..Len(lyrics) : j # k => p[j] # p[k]
               /\ \A k \in 1..Len(lyrics) :
                    /\ lyrics'[k].id = lyrics[p[k]].id
                    /\ lyrics'[k].text = lyrics[p[k]].text
                    /\ lyrics'[k].timestamp =
                         IF p[k] = index + 1 THEN timeTotal(newTimeStr)
                         ELSE lyrics[p[k]].timestamp
               /\ \A j, k \in 1..Len(lyrics) :
                    (j < k /\ lyrics'[j].timestamp = lyrics'[k].timestamp)
                      => p[j] < p[k]
          /\ Sorted(lyrics') ]_vars

\* C18: a text edit in row index changes the text of that line and nothing
\* else: the length, the order, every id, every timestamp and the text of
\* every other line stay as they were.
C18_TextEditChangesOneText ==
  [][ \A index \in Rows, newText \in TextInputs :
        TextChange(index, newText) =>
          lyrics' = [lyrics EXCEPT ![index + 1].text = newText] ]_vars

\* C19: Enter in row index puts exactly one new line with empty text right
\* after that row, its timestamp the row's plus 2 s; the lines before and
\* after keep their content and their order, and nothing is re-sorted.
C19_EnterInsertsAfterRow ==
  [][ \A index \in Rows, clock \in ClockReadings :
        KeyDown(index, "Enter", clock) =>
          /\ Len(lyrics') = Len(lyrics) + 1
          /\ lyrics'[index + 2].text = <<>>
          /\ lyrics'[index + 2].timestamp = lyrics[index + 1].timestamp + 2000
          /\ \A j \in 1..(index + 1) : lyrics'[j] = lyrics[j]
          /\ \A j \in (index + 2)..Len(lyrics) : lyrics'[j + 1] = lyrics[j]
    ]_vars

\* C19's case: Enter was pressed in a row that is not the last, so that the
\* new line, 2 s later than its row, sits in front of an earlier line.
C19_Witness ==
  \E i \in 1..(Len(lyrics) - 1) :
    /\ lyrics[i].id \in { <<"line", clock>> : clock \in ClockReadings }
    /\ lyrics[i].text = <<>>
    /\ lyrics[i].timestamp > lyrics[i + 1].timestamp

\* C20: the delete button of row index removes that line and nothing else:
\* the other lines stay, each with its id, text and timestamp, in the order
\* they had; deleting the only line leaves the empty sequence.
C20_DeleteRemovesOneLine ==
  [][ \A index \in Rows :
        Delete(index) =>
          lyrics' = SubSeq(lyrics, 1, index) \o Drop(lyrics, index + 1) ]_vars

\* The player holds at most one region, and the indicators show whether it
\* is there and whether it loops.
SingleRegion ==
  /\ Len(regions) <= 1
  /\ hasRegion <=> Len(regions) = 1
  /\ isLooping <=> (Len(regions) = 1 /\ regions[1].loop)
  /\ Len(regions) = 1 => activeRegionRef = regions[1].id

\* C24: after any sequence of drags, removals, Clear Selection and file
\* loads the player holds at most one region and hasRegion and isLooping
\* say whether it exists and loops; a new region replaces the one held and
\* starts with looping off.
C24_AtMostOneRegion ==
  [][ /\ SingleRegion'
      /\ \A id \in RegionIds :
           DragRegion(id) => regions' = <<Region(id, FALSE)>> /\ ~isLooping'
    ]_vars

\* C24's case: a second region was created while the first was held, and
\* it is the only one left.
C24_Witness ==
  /\ hasRegion
  /\ Len(regions) = 1
  /\ regions[1].id = 2
  /\ activeRegionRef = 2

\* C21: parsing a file gives exactly one line for each of its lines that
\* matches the bracketed-timestamp pattern and none for the others (none at
\* all for a file without a matching line), in non-decreasing timestamp
\* order, lines of equal timestamp in the order of the file.
C21_ParseKeepsMatchingLinesSorted ==
  [][ \A clock \in ClockReadings :
        LrcUpload(lrcFile, clock) =>
          LET lines == Split(lrcFile, "\n")
              matching == {i \in 1..Len(lines) : timeMatches(lines[i])}
              from == [k \in 1..Len(lyrics') |-> lyrics'[k].id[2] + 1]
          IN /\ Len(lyrics') = Cardinality(matching)
             /\ {from[k] : k \in 1..Len(lyrics')} = matching
             /\ \A k \in 1..(Len(lyrics') - 1) :
                  \/ lyrics'[k].timestamp < lyrics'[k + 1].timestamp
                  \/ /\ lyrics'[k].timestamp = lyrics'[k + 1].timestamp
                     /\ from[k] < from[k + 1] ]_vars

\* C21's case: a file with a line that does not match between two that tie
\* was parsed: two lines, "a" before "c".
C21_Witness ==
  /\ Len(lyrics) = 2
  /\ lyrics[1].timestamp = lyrics[2].timestamp
  /\ lyrics[1].id[2] = 0
  /\ lyrics[2].id[2] = 2
  /\ Len(Split(lrcFile, "\n")) = 3
  /\ ~timeMatches(Split(lrcFile, "\n")[2])

\* C22: importing the file just exported from the sequence gives the
\* sequence back: as many lines, in the same order, each with its text
\* exactly and its timestamp within 0.01 s.
C22_ExportThenImportRoundTrips ==
  [][ \A clock \in ClockReadings :
        (lrcFile = exportLRC(lyrics) /\ LrcUpload(lrcFile, clock)) =>
          /\ Len(lyrics') = Len(lyrics)
          /\ \A i \in 1..Len(lyrics) :
               /\ lyrics'[i].text = lyrics[i].text
               /\ lyrics'[i].timestamp - lyrics[i].timestamp \in -10..10
    ]_vars

\* A text without timestamps: none of its lines matches the pattern.
PlainText(text) ==
  \A i \in 1..Len(Split(text, "\n")) : ~timeMatches(Split(text, "\n")[i])

\* The lines of a text that are not blank, trimmed, in the text's order.
NonBlankLines(text) ==
  LET kept == SelectSeq(Split(text, "\n"),
                        LAMBDA t : \E i \in 1..Len(t) : t[i] \notin WhiteSpace)
  IN [i \in 1..Len(kept) |-> Trim(kept[i])]

\* The sequence l holds the non-blank lines of the text, in order, each at
\* timestamp 0.
HoldsPlainLines(l, text) ==
  /\ Len(l) = Len(NonBlankLines(text))
  /\ \A i \in 1..Len(l) :
       l[i].timestamp = 0 /\ l[i].text = NonBlankLines(text)[i]

\* C23: importing a text without timestamps, by the Paste Text button or by
\* the Text/LRC file import, replaces the sequence with one line for each
\* non-blank line of the text, in its order, at timestamp 0 and with the
\* trimmed line as text.
C23_PlainTextImport ==
  [][ /\ \A text \in PasteTexts, clock \in ClockReadings :
           (PlainText(text) /\ PasteLyrics(text, clock))
             => HoldsPlainLines(lyrics', text)
      /\ \A clock \in ClockReadings :
           (PlainText(lrcFile) /\ LrcUpload(lrcFile, clock))
             => HoldsPlainLines(lyrics', lrcFile) ]_vars

\* C25: in every reachable state the active line id is none or the id of a
\* line of the sequence; it does not outlive the line's deletion or the
\* sequence's replacement.
C25_ActiveLineIsInTheSequence ==
  \/ activeLineId = NoLine
  \/ \E i \in 1..Len(lyrics) : lyrics[i].id = activeLineId

\* The taps of the pass so far have left the lines before the cursor in
\* non-decreasing timestamp order, and the cursor within the sequence.
PassSoFar ==
  mode = TAP_SYNC =>
    /\ syncIndex <= Len(lyrics)
    /\ \A k \in 1..(syncIndex - 1) :
         Leq(lyrics[k].timestamp, lyrics[k + 1].timestamp)

\* C26: in a tap-sync pass with nothing but taps at non-decreasing times,
\* the k-th tap gives its time to line k (the cursor counts the taps) and
\* changes nothing else, so that after n taps on n lines each line holds
\* its tap's time, none has moved or changed text, the cursor is n and the
\* sequence is in non-decreasing timestamp order.
C26_TapPassStampsInOrder ==
  [][ /\ \A time \in PlayerTimes :
           (PassTap(time) /\ syncIndex < Len(lyrics)) =>
             /\ lyrics' = [lyrics EXCEPT ![syncIndex + 1].timestamp = time]
             /\ syncIndex' = syncIndex + 1
      /\ PassSoFar'
      /\ (mode' = TAP_SYNC /\ syncIndex' = Len(lyrics')) => Sorted(lyrics')
    ]_vars

\* C26's case: a pass over two lines is complete, both taps at 0.8 s.
C26_Witness ==
  /\ mode = TAP_SYNC
  /\ Len(lyrics) = 2
  /\ syncIndex = 2
  /\ lyrics[1].timestamp = 800
  /\ lyrics[2].timestamp = 800

====
